---- MODULE Spec2Model ----
(***************************************************************************)
(* State-machine model of stackabuse_scraper.py: the recursive crawl       *)
(* parse_posts / parse_page and the three output operations                *)
(* get_posts_json, get_posts_csv and get_posts_markdown.                   *)
(*                                                                         *)
(* Text is a sequence of one-character strings, so that strip() and        *)
(* replace() are computed.  A listing URL is BASE_URL + href with the href *)
(* named by a page number; a post's link is BASE_URL + its href.           *)
(***************************************************************************)
EXTENDS Integers, Sequences, FiniteSets

VARIABLES
    op,      \* the output operation main() dispatched to
    stack,   \* the active parse_posts frames, outermost first
    status,  \* "running", "returned" (parse_posts returned) or "raised"
    exc,     \* the exception that left parse_posts or an encoder, or "none"
    result,  \* the list parse_posts returned to get_posts_*
    trace,   \* the blocks visited and the requests.get and time.sleep calls made, in order
    enc,     \* position of the output operation after the crawl
    fs       \* the output artifacts on disk

vars == <<op, stack, status, exc, result, trace, enc, fs>>

----------------------------------------------------------------------------
(* Bounds *)

\* Listing URLs the site can link to.
MaxPages == 3

\* Nested parse_posts calls the interpreter allows before the next one ends
\* in RecursionError (sys.getrecursionlimit() is 1000 in CPython and the
\* program never changes it; scaled down here).
RecursionLimit == 2

\* The posts of the site.
PostIds == {1, 2}

PageUrls == 1 .. MaxPages

----------------------------------------------------------------------------
(* Text helpers: str.strip() and str.replace(c, '') *)

RECURSIVE LStrip(_)
LStrip(s) ==
    IF s # <<>> /\ Head(s) = " " THEN LStrip(Tail(s)) ELSE s

RECURSIVE RStrip(_)
RStrip(s) ==
    IF s # <<>> /\ s[Len(s)] = " " THEN RStrip(SubSeq(s, 1, Len(s) - 1)) ELSE s

Strip(s) == RStrip(LStrip(s))

Remove(s, c) == SelectSeq(s, LAMBDA x : x # c)

----------------------------------------------------------------------------
(* The site: what the markup of a post's summary block and of its own page *)
(* holds.                                                                  *)

BASE_URL == <<"h", "/", "/", "s">>

Href(p) == <<"/", "p">> \o (IF p = 1 THEN <<"1">> ELSE <<"2">>)

H3Text(p) == IF p = 1 THEN <<" ", "A", " ">> ELSE <<"B", "c">>

DateTime(p) == IF p = 1 THEN <<"7", " ">> ELSE <<"8">>

AuthorText(p) == <<" ", "m">>

\* The <a> texts inside the category wrapper of a post's page.
TagTexts(p) == IF p = 1 THEN << <<"#", "x">>, <<" ", "#", "y", " ">> >> ELSE << >>

\* Whether the post's page has a <meta name="description">, and its content.
HasDescription(p) == p = 1
MetaContent(p) == <<" ", "d", " ">>

FirstParagraph(p) == IF p = 1 THEN <<"t", " ">> ELSE <<" ", "u">>

defaut_editor == <<"E">>

\* Shapes of one summary block: complete, or lacking the title anchor, the
\* meta div, or the author anchor.
BlockShapes == {"ok", "noanchor", "nometa", "noauthor"}

\* Shapes of a post's page: complete, lacking the category wrapper div, or
\* lacking any <p>.
DetailShapes == {"ok", "nowrapper", "noparagraph"}

\* Listings: the posts of a page in document order (no post twice on a page).
RECURSIVE Injective(_)
Injective(s) ==
    \/ s = <<>>
    \/ /\ \A i \in 2 .. Len(s) : s[i] # Head(s)
       /\ Injective(Tail(s))

Listings ==
    {s \in UNION {[1 .. n -> PostIds] : n \in 0 .. Cardinality(PostIds)} : Injective(s)}

\* The href of the pagination anchor; 0 when the page has none.
NoPagination == 0
NextTargets == {NoPagination} \cup PageUrls

\* What requests.get can do: raise (connection error, timeout), or return a
\* response with a status code.  It never returns None.
Responses ==
    { [raised |-> TRUE,  status_code |-> 0],
      [raised |-> FALSE, status_code |-> 200],
      [raised |-> FALSE, status_code |-> 404] }

----------------------------------------------------------------------------
(* Values *)

\* A map object: lazy, not a list.
MapObject(items) == [type |-> "map", items |-> items, consumed |-> FALSE]
ListObject(items) == [type |-> "list", items |-> items, consumed |-> FALSE]

EmptyDict ==
    [full |-> FALSE, categories |-> ListObject(<<>>), description |-> <<>>, content |-> <<>>]

NoPartial == [title |-> <<>>, link |-> <<>>, date |-> <<>>, author |-> <<>>]

\* response is not None and response.status_code == 200
IsOk(response) == response.status_code = 200

\* parse_page lines 25-40, on a complete page of post p.
PageData(p) ==
    [ full        |-> TRUE,
      categories  |-> MapObject([i \in 1 .. Len(TagTexts(p)) |->
                                    Strip(Remove(TagTexts(p)[i], "#"))]),
      description |-> IF HasDescription(p) THEN Strip(MetaContent(p)) ELSE <<>>,
      content     |-> Strip(FirstParagraph(p)) ]

\* parse_posts lines 57-64, on a complete summary block of post p.
Summary(p) ==
    [ title  |-> Strip(H3Text(p)),
      link   |-> BASE_URL \o Href(p),
      date   |-> Strip(DateTime(p)),
      author |-> Strip(AuthorText(p)) ]

\* parse_posts lines 70-79.
MakePost(cur, editor, page_data) ==
    [ title       |-> cur.title,
      link        |-> cur.link,
      date        |-> cur.date,
      author      |-> cur.author,
      editor      |-> editor,
      description |-> page_data.description,
      categories  |-> page_data.categories,
      content     |-> page_data.content ]

\* posts + parse_posts(...), line 89 (and the operands swapped, a faulty
\* variant C2 must tell apart).
Concat_Reversed(posts, older) == older \o posts
Concat(posts, older) == posts \o older

\* pagination is not None, line 87 (and two faulty variants: the control is
\* never followed; a link to a page of the current walk is not followed).
HasOlder_Never(next, frames) == FALSE
HasOlder_Unvisited(next, frames) ==
    next # NoPagination /\ \A i \in 1 .. Len(frames) : frames[i].url # next
HasOlder(next, frames) == next # NoPagination

\* The call at line 89 exceeds the interpreter's recursion limit.
StackExhausted(frames) == Len(frames) >= RecursionLimit

----------------------------------------------------------------------------
(* Events *)

\* A requests.get call: who made it, for which URL, what came back (for a
\* listing page the summary blocks and the pagination href found in it, for a
\* post's page its shape).
GetEvent(fn, url, response, articles, next, shape) ==
    [ ev |-> "get", fn |-> fn, url |-> url, raised |-> response.raised,
      status_code |-> response.status_code, articles |-> articles, next |-> next,
      shape |-> shape ]

\* The loop at line 56 reaching the summary block of post p, and its shape.
ArticleEvent(p, shape) ==
    [ ev |-> "article", fn |-> "parse_posts", url |-> p, raised |-> FALSE,
      status_code |-> 0, articles |-> <<>>, next |-> 0, shape |-> shape ]

\* time.sleep(0.5), line 66 (and a variant without the delay).
SleepEvent_None(tr) == tr
SleepEvent(tr) ==
    Append(tr, [ ev |-> "sleep", fn |-> "parse_posts", url |-> 0, raised |-> FALSE,
                 status_code |-> 0, articles |-> <<>>, next |-> 0, shape |-> "ok" ])

----------------------------------------------------------------------------
(* Frames *)

NewFrame(url) ==
    [ url |-> url, pc |-> "request", articles |-> <<>>, next |-> NoPagination,
      idx |-> 0, posts |-> <<>>, cur |-> NoPartial, page_data |-> EmptyDict,
      older |-> <<>> ]

Depth == Len(stack)
Top == stack[Depth]
SetTop(f) == [stack EXCEPT ![Depth] = f]

Running == status = "running" /\ Depth > 0

\* An exception propagates out of every frame (nothing catches it).
Raise(name) ==
    /\ status' = "raised"
    /\ exc' = name
    /\ stack' = <<>>
    /\ UNCHANGED <<result>>

\* The top frame returns `value` to its caller.
ReturnValue(value) ==
    /\ exc' = exc
    /\ IF Depth = 1
       THEN /\ stack' = <<>>
            /\ status' = "returned"
            /\ result' = value
       ELSE /\ stack' = [SubSeq(stack, 1, Depth - 1) EXCEPT
                            ![Depth - 1] = [@ EXCEPT !.older = value, !.pc = "concat"]]
            /\ UNCHANGED <<status, result>>

----------------------------------------------------------------------------
(* parse_posts *)

\* Line 53-55 and 91-93: the GET of the listing page.
Request ==
    /\ Running
    /\ Top.pc = "request"
    /\ \E response \in Responses, articles \in Listings, next \in NextTargets :
         /\ (~IsOk(response) \/ response.raised) => (articles = <<>> /\ next = NoPagination)
         /\ trace' = Append(trace, GetEvent("parse_posts", Top.url, response, articles, next, "ok"))
         /\ IF response.raised
            THEN Raise("ConnectionError")
            ELSE IF IsOk(response)
            THEN /\ stack' = SetTop([Top EXCEPT !.pc = "for", !.articles = articles,
                                                !.next = next, !.idx = 0])
                 /\ UNCHANGED <<status, exc, result>>
            ELSE ReturnValue(<<>>)
    /\ UNCHANGED <<op, enc, fs>>

\* Lines 56-64: the next summary block of the page.
ForArticle ==
    /\ Running
    /\ Top.pc = "for"
    /\ Top.idx < Len(Top.articles)
    /\ \E shape \in BlockShapes :
         /\ trace' = Append(trace, ArticleEvent(Top.articles[Top.idx + 1], shape))
         /\ IF shape = "ok"
            THEN /\ stack' = SetTop([Top EXCEPT !.idx = @ + 1, !.pc = "sleep",
                                                !.cur = Summary(Top.articles[Top.idx + 1])])
                 /\ UNCHANGED <<status, exc, result>>
            ELSE Raise("AttributeError")
    /\ UNCHANGED <<op, enc, fs>>

\* Line 66.
Sleep ==
    /\ Running
    /\ Top.pc = "sleep"
    /\ trace' = SleepEvent(trace)
    /\ stack' = SetTop([Top EXCEPT !.pc = "parse_page"])
    /\ UNCHANGED <<op, status, exc, result, enc, fs>>

\* Line 67 with parse_page, lines 16-43.
ParsePage ==
    /\ Running
    /\ Top.pc = "parse_page"
    /\ \E response \in Responses, shape \in DetailShapes :
         LET p == Top.articles[Top.idx] IN
         /\ (~IsOk(response) \/ response.raised) => shape = "ok"
         /\ trace' = Append(trace, GetEvent("parse_page", p, response, <<>>, NoPagination, shape))
         /\ IF response.raised
            THEN Raise("ConnectionError")
            ELSE IF ~IsOk(response)
            THEN /\ stack' = SetTop([Top EXCEPT !.pc = "append", !.page_data = EmptyDict])
                 /\ UNCHANGED <<status, exc, result>>
            ELSE IF shape = "nowrapper"
            THEN Raise("AttributeError")
            ELSE IF shape = "noparagraph"
            THEN Raise("IndexError")
            ELSE /\ stack' = SetTop([Top EXCEPT !.pc = "append", !.page_data = PageData(p)])
                 /\ UNCHANGED <<status, exc, result>>
    /\ UNCHANGED <<op, enc, fs>>

\* Lines 68-81.
AppendPost ==
    /\ Running
    /\ Top.pc = "append"
    /\ IF Top.page_data.full
       THEN /\ stack' = SetTop([Top EXCEPT
                   !.posts = Append(@, MakePost(Top.cur, defaut_editor, Top.page_data)),
                   !.pc = "for"])
            /\ UNCHANGED <<status, exc, result>>
       ELSE Raise("KeyError")
    /\ UNCHANGED <<op, trace, enc, fs>>

\* Lines 82-90: after the loop.
Paginate ==
    /\ Running
    /\ Top.pc = "for"
    /\ Top.idx = Len(Top.articles)
    /\ IF HasOlder(Top.next, stack)
       THEN IF StackExhausted(stack)
            THEN Raise("RecursionError")
            ELSE /\ stack' = Append(SetTop([Top EXCEPT !.pc = "call"]), NewFrame(Top.next))
                 /\ UNCHANGED <<status, exc, result>>
       ELSE ReturnValue(Top.posts)
    /\ UNCHANGED <<op, trace, enc, fs>>

\* Line 89, once the recursive call has returned.
ReturnOlder ==
    /\ Running
    /\ Top.pc = "concat"
    /\ ReturnValue(Concat(Top.posts, Top.older))
    /\ UNCHANGED <<op, trace, enc, fs>>

----------------------------------------------------------------------------
(* Output artifacts *)

NoFile == [exists |-> FALSE, data |-> <<>>]
EmptyFile == [exists |-> TRUE, data |-> <<>>]

\* slugify(title): lower case, runs of other characters become one hyphen,
\* hyphens trimmed at both ends (on the alphabet of the titles).
Lower(c) == IF c = "A" THEN "a" ELSE IF c = "B" THEN "b" ELSE IF c = " " THEN "-" ELSE c

RECURSIVE TrimHyphens(_)
TrimHyphens(s) ==
    IF s # <<>> /\ Head(s) = "-" THEN TrimHyphens(Tail(s))
    ELSE IF s # <<>> /\ s[Len(s)] = "-" THEN TrimHyphens(SubSeq(s, 1, Len(s) - 1))
    ELSE s

Slugify(text) == TrimHyphens([i \in 1 .. Len(text) |-> Lower(text[i])])

Slugs == {Slugify(Summary(p).title) : p \in PostIds}

InitFs ==
    [ json |-> NoFile, csv |-> NoFile, articles |-> FALSE, md |-> [s \in Slugs |-> NoFile] ]

\* posts = parse_posts(author_url, defaut_editor) has completed (lines 98, 106,
\* 118) (and a variant that lets the output start before the crawl is over).
PostsAssigned_Early == status # "raised"
PostsAssigned == status = "returned"

----------------------------------------------------------------------------
(* json.dump(posts, json_file, indent=4) as the chunks it writes, and      *)
(* json.load of a chunk sequence                                           *)

Tok(t) == [t |-> t, k |-> "", v |-> <<>>]
KeyTok(k) == [t |-> "key", k |-> k, v |-> <<>>]
StrTok(text) == [t |-> "str", k |-> "", v |-> text]

StrToks(items) == [i \in 1 .. Len(items) |-> StrTok(items[i])]

\* The chunks of one post, in key order, up to the first value the encoder
\* cannot serialize: a list is written as an array, a map object makes
\* JSONEncoder.default raise TypeError.
EncodePost(post) ==
    LET head == << Tok("{"),
                   KeyTok("title"), StrTok(post.title),
                   KeyTok("link"), StrTok(post.link),
                   KeyTok("date"), StrTok(post.date),
                   KeyTok("author"), StrTok(post.author),
                   KeyTok("editor"), StrTok(post.editor),
                   KeyTok("description"), StrTok(post.description),
                   KeyTok("categories") >>
    IN  IF post.categories.type = "list"
        THEN [ error |-> FALSE,
               chunks |-> head \o <<Tok("[")>> \o StrToks(post.categories.items)
                               \o << Tok("]"), KeyTok("content"), StrTok(post.content),
                                     Tok("}") >> ]
        ELSE [ error |-> TRUE, chunks |-> head ]

RECURSIVE EncodePosts(_)
EncodePosts(posts) ==
    IF posts = <<>> THEN [error |-> FALSE, chunks |-> <<>>]
    ELSE LET first == EncodePost(Head(posts)) IN
         IF first.error THEN first
         ELSE LET rest == EncodePosts(Tail(posts)) IN
              [error |-> rest.error, chunks |-> first.chunks \o rest.chunks]

JsonDump(posts) ==
    LET body == EncodePosts(posts) IN
    IF body.error
    THEN [error |-> TRUE, chunks |-> <<Tok("[")>> \o body.chunks]
    ELSE [error |-> FALSE, chunks |-> <<Tok("[")>> \o body.chunks \o <<Tok("]")>>]

\* json.load, the reader the round trip of the JSON file is stated with.
Failed == [ok |-> FALSE, value |-> <<>>, at |-> 0]

\* An array of strings starting after its "[", at toks[i].
RECURSIVE LoadStrings(_, _, _)
LoadStrings(toks, i, acc) ==
    IF i > Len(toks) THEN Failed
    ELSE IF toks[i].t = "]" THEN [ok |-> TRUE, value |-> ListObject(acc), at |-> i + 1]
    ELSE IF toks[i].t = "str" THEN LoadStrings(toks, i + 1, Append(acc, toks[i].v))
    ELSE Failed

\* The members of an object starting after its "{", at toks[i].
RECURSIVE LoadMembers(_, _, _)
LoadMembers(toks, i, acc) ==
    IF i > Len(toks) THEN Failed
    ELSE IF toks[i].t = "}" THEN [ok |-> TRUE, value |-> acc, at |-> i + 1]
    ELSE IF toks[i].t # "key" \/ i + 1 > Len(toks) THEN Failed
    ELSE LET key == toks[i].k
             val == IF toks[i + 1].t = "str"
                    THEN [ok |-> TRUE, value |-> toks[i + 1].v, at |-> i + 2]
                    ELSE IF toks[i + 1].t = "["
                    THEN LoadStrings(toks, i + 2, <<>>)
                    ELSE Failed
         IN  IF ~val.ok THEN Failed
             ELSE LoadMembers(toks, val.at,
                      [k \in DOMAIN acc \cup {key} |-> IF k = key THEN val.value ELSE acc[k]])

\* The elements of an array of objects starting after its "[", at toks[i].
RECURSIVE LoadObjects(_, _, _)
LoadObjects(toks, i, acc) ==
    IF i > Len(toks) THEN Failed
    ELSE IF toks[i].t = "]" THEN [ok |-> i = Len(toks), value |-> acc, at |-> i + 1]
    ELSE IF toks[i].t # "{" THEN Failed
    ELSE LET obj == LoadMembers(toks, i + 1, <<>>) IN
         IF ~obj.ok THEN Failed
         ELSE LoadObjects(toks, obj.at, Append(acc, obj.value))

JsonLoad(toks) ==
    IF toks = <<>> \/ toks[1].t # "[" THEN Failed ELSE LoadObjects(toks, 2, <<>>)

----------------------------------------------------------------------------
(* csv.writer(..., quoting=csv.QUOTE_ALL) *)

RECURSIVE DoubleQuotes(_)
DoubleQuotes(text) ==
    IF text = <<>> THEN <<>>
    ELSE (IF Head(text) = "\"" THEN <<"\"", "\"">> ELSE <<Head(text)>>)
         \o DoubleQuotes(Tail(text))

Quoted(text) == <<"\"">> \o DoubleQuotes(text) \o <<"\"">>

CsvRow(fields) == [i \in 1 .. Len(fields) |-> Quoted(fields[i])]

CsvHeaders ==
    << <<"T", "i", "t", "l", "e">>, <<"L", "i", "n", "k">>, <<"D", "a", "t", "e">> >>

CsvRows(posts) ==
    <<CsvRow(CsvHeaders)>> \o
    [i \in 1 .. Len(posts) |-> CsvRow(<<posts[i].title, posts[i].link, posts[i].date>>)]

----------------------------------------------------------------------------
(* Markdown front matter *)

\* ', '.join(iterable): iterating a consumed map object yields nothing.
RECURSIVE JoinItems(_)
JoinItems(items) ==
    IF items = <<>> THEN <<>>
    ELSE IF Len(items) = 1 THEN items[1]
    ELSE items[1] \o <<",", " ">> \o JoinItems(Tail(items))

Join(obj) == IF obj.consumed THEN <<>> ELSE JoinItems(obj.items)

Line(k, text) == [k |-> k, v |-> text]

MarkdownLines(post) ==
    << Line("---", <<>>),
       Line("title", <<"\"">> \o post.title \o <<"\"">>),
       Line("date", post.date),
       Line("link", post.link),
       Line("author", post.author),
       Line("editor", post.editor),
       Line("description", <<"\"">> \o post.description \o <<"\"">>),
       Line("tags", <<"[">> \o Join(post.categories) \o <<"]">>),
       Line("---", <<>>),
       Line("", <<>>),
       Line("body", post.content) >>

\* Iterating a map object exhausts it.
Consume(obj) == IF obj.type = "map" THEN [obj EXCEPT !.consumed = TRUE] ELSE obj

----------------------------------------------------------------------------
(* get_posts_json, get_posts_csv, get_posts_markdown after the crawl *)

EncoderRaise(name) ==
    /\ enc' = [pc |-> "raised", i |-> enc.i]
    /\ exc' = name

\* Line 100: open(filename, 'w').
JsonOpen ==
    /\ op = "json" /\ PostsAssigned /\ enc.pc = "start"
    /\ \/ /\ fs' = [fs EXCEPT !.json = EmptyFile]
          /\ enc' = [enc EXCEPT !.pc = "dump"]
          /\ exc' = exc
       \/ /\ EncoderRaise("OSError")
          /\ fs' = fs
    /\ UNCHANGED <<op, stack, status, result, trace>>

\* Line 101: json.dump writes chunk by chunk; the file is closed on the way out.
JsonWrite ==
    /\ op = "json" /\ enc.pc = "dump"
    /\ LET out == JsonDump(result) IN
       /\ fs' = [fs EXCEPT !.json.data = out.chunks]
       /\ IF out.error
          THEN EncoderRaise("TypeError")
          ELSE enc' = [enc EXCEPT !.pc = "done"] /\ exc' = exc
    /\ UNCHANGED <<op, stack, status, result, trace>>

\* Line 109.
CsvOpen ==
    /\ op = "csv" /\ PostsAssigned /\ enc.pc = "start"
    /\ \/ /\ fs' = [fs EXCEPT !.csv = EmptyFile]
          /\ enc' = [enc EXCEPT !.pc = "rows"]
          /\ exc' = exc
       \/ /\ EncoderRaise("OSError")
          /\ fs' = fs
    /\ UNCHANGED <<op, stack, status, result, trace>>

\* Lines 110-113.
CsvWrite ==
    /\ op = "csv" /\ enc.pc = "rows"
    /\ fs' = [fs EXCEPT !.csv.data = CsvRows(result)]
    /\ enc' = [enc EXCEPT !.pc = "done"]
    /\ UNCHANGED <<op, stack, status, exc, result, trace>>

\* Line 120: pathlib.Path('articles').mkdir(exist_ok=True).
MarkdownMkdir ==
    /\ op = "markdown" /\ PostsAssigned /\ enc.pc = "start"
    /\ \/ /\ fs' = [fs EXCEPT !.articles = TRUE]
          /\ enc' = [enc EXCEPT !.pc = "posts"]
          /\ exc' = exc
       \/ /\ EncoderRaise("OSError")
          /\ fs' = fs
    /\ UNCHANGED <<op, stack, status, result, trace>>

\* Lines 121-135, one post: open the file, build the lines, write them.
MarkdownPost ==
    /\ op = "markdown" /\ enc.pc = "posts" /\ enc.i < Len(result)
    /\ LET post == result[enc.i + 1]
           slug == Slugify(post.title)
       IN  \/ /\ fs' = [fs EXCEPT !.md[slug] = [exists |-> TRUE, data |-> MarkdownLines(post)]]
              /\ result' = [result EXCEPT ![enc.i + 1].categories = Consume(@)]
              /\ enc' = [enc EXCEPT !.i = @ + 1]
              /\ exc' = exc
           \/ /\ EncoderRaise("OSError")
              /\ UNCHANGED <<fs, result>>
    /\ UNCHANGED <<op, stack, status, trace>>

\* The loop at line 121 is over.
MarkdownDone ==
    /\ op = "markdown" /\ enc.pc = "posts" /\ enc.i = Len(result)
    /\ enc' = [enc EXCEPT !.pc = "done"]
    /\ UNCHANGED <<op, stack, status, exc, result, trace, fs>>

----------------------------------------------------------------------------

Ops == {"json", "csv", "markdown"}

Init ==
    /\ op \in Ops
    /\ stack = <<NewFrame(1)>>
    /\ status = "running"
    /\ exc = "none"
    /\ result = <<>>
    /\ trace = <<>>
    /\ enc = [pc |-> "start", i |-> 0]
    /\ fs = InitFs

Next ==
    \/ Request
    \/ ForArticle
    \/ Sleep
    \/ ParsePage
    \/ AppendPost
    \/ Paginate
    \/ ReturnOlder
    \/ JsonOpen
    \/ JsonWrite
    \/ CsvOpen
    \/ CsvWrite
    \/ MarkdownMkdir
    \/ MarkdownPost
    \/ MarkdownDone

Spec == Init /\ [][Next]_vars

----------------------------------------------------------------------------
(* What the run has seen so far *)

IsListingGet(e) == e.ev = "get" /\ e.fn = "parse_posts"
IsDetailGet(e) == e.ev = "get" /\ e.fn = "parse_page"
IsBlock(e) == e.ev = "article"
Succeeded(e) == ~e.raised /\ e.status_code = 200

ListingGets == SelectSeq(trace, IsListingGet)
DetailGets == SelectSeq(trace, IsDetailGet)

\* Every fetch answered 200 and every block and post page was complete.
AllFetched == \A i \in 1 .. Len(trace) : trace[i].ev = "get" => Succeeded(trace[i])
WellFormed == \A i \in 1 .. Len(trace) : trace[i].shape = "ok"
AllOk == AllFetched /\ WellFormed

Finished == status # "running"

\* The crawl has handed its list to the output operation, which has not yet
\* started on it.
JustReturned == status = "returned" /\ enc.pc = "start"

\* The record of post p when its block and its page are complete.
FullRecord(p) == MakePost(Summary(p), defaut_editor, PageData(p))

PageRecords(e) == [i \in 1 .. Len(e.articles) |-> FullRecord(e.articles[i])]

\* The records of the listing pages `events`, page after page.
RECURSIVE RecordsOf(_)
RecordsOf(events) ==
    IF events = <<>> THEN <<>> ELSE PageRecords(Head(events)) \o RecordsOf(Tail(events))

\* Listing pages that held a pagination control.
PagesWithNext == Len(SelectSeq(ListingGets, LAMBDA e : Succeeded(e) /\ e.next # NoPagination))

\* The URLs of the chain walked so far, with the one the last page links to.
ChainUrls ==
    LET L == ListingGets
        urls == [i \in 1 .. Len(L) |-> L[i].url]
    IN  IF L # <<>> /\ L[Len(L)].next # NoPagination
        THEN Append(urls, L[Len(L)].next)
        ELSE urls

Acyclic == Injective(ChainUrls)

\* Some page's "next" link points at a page already visited (itself included).
CycleEntered ==
    \E i \in 1 .. Len(ListingGets) :
        /\ Succeeded(ListingGets[i])
        /\ \E j \in 1 .. i : ListingGets[j].url = ListingGets[i].next

\* The site does not change during the crawl: a URL fetched twice held the
\* same page both times.
SamePages ==
    \A i, j \in 1 .. Len(ListingGets) :
        ListingGets[i].url = ListingGets[j].url =>
            /\ ListingGets[i].articles = ListingGets[j].articles
            /\ ListingGets[i].next = ListingGets[j].next

----------------------------------------------------------------------------
(* Claims *)

\* C1: when pages 1..k-1 are fetched and the fetch of page k (k >= 2) fails,
\* the crawl returns (does not raise) exactly the records of pages 1..k-1 and
\* fetches nothing after page k.
C1_PartialResultOnFailure ==
    LET L == ListingGets
        k == Len(L)
    IN  ( /\ k >= 2
          /\ ~Succeeded(L[k])
          /\ \A i \in 1 .. k - 1 : Succeeded(L[i])
          /\ \A i \in 1 .. Len(trace) : IsDetailGet(trace[i]) => Succeeded(trace[i])
          /\ WellFormed
          /\ Finished /\ enc.pc = "start" )
        => ( /\ status = "returned"
             /\ result = RecordsOf(SubSeq(L, 1, k - 1))
             /\ IsListingGet(trace[Len(trace)]) )

\* C2: when every listing page is fetched and parsed, the list the crawl
\* returns is the records of the pages in visit order, each page's records in
\* document order, nothing dropped, reordered or deduplicated.
C2_PageThenDocumentOrder ==
    (JustReturned /\ AllOk) => result = RecordsOf(ListingGets)

\* C2 witness: page 1 lists posts 1 and 2, page 2 lists post 1 again, and the
\* crawl returned three records.
C2_Witness ==
    /\ JustReturned /\ AllOk
    /\ Len(ListingGets) = 2
    /\ ListingGets[1].articles = <<1, 2>>
    /\ ListingGets[2].articles = <<1>>
    /\ Len(result) = 3
    /\ result[1] = result[3]
    /\ result[1] # result[2]

C4_DetailFailureTolerated ==
    (\E i \in 1 .. Len(trace) :
        IsDetailGet(trace[i]) /\ ~trace[i].raised /\ trace[i].status_code # 200)
      => /\ status # "raised"
         /\ JustReturned => Len(result) = Len(DetailGets)

\* C5: a summary block lacking its title anchor, meta element or author is
\* skipped, and no error leaves the crawl.
C5_BadBlockSkipped ==
    (\E i \in 1 .. Len(trace) : IsBlock(trace[i]) /\ trace[i].shape # "ok")
      => status # "raised"

\* C6: get_posts_json succeeds on every crawl result and the file, loaded
\* back, equals the result.
C6_JsonRoundTrip ==
    (op = "json" /\ enc.pc \in {"done", "raised"} /\ exc # "OSError")
      => /\ enc.pc = "done"
         /\ JsonLoad(fs.json.data).ok
         /\ JsonLoad(fs.json.data).value = result

\* C7: a fetch that does not answer 200 (network error, timeout, other
\* status) becomes a failure value, not an exception, and its URL is not
\* fetched again.
C7_FailureIsAValue ==
    \A i \in 1 .. Len(trace) :
        (trace[i].ev = "get" /\ ~Succeeded(trace[i]))
          => /\ ~(status = "raised" /\ exc = "ConnectionError")
             /\ \A j \in i + 1 .. Len(trace) :
                    ~(trace[j].ev = "get" /\ trace[j].fn = trace[i].fn
                                          /\ trace[j].url = trace[i].url)

\* The positions in the trace of the listing fetches.
ListingAt == {i \in 1 .. Len(trace) : IsListingGet(trace[i])}

\* The posts whose pages were fetched after position a and before position b.
DetailUrlsBetween(a, b) ==
    LET part == SelectSeq(SubSeq(trace, a + 1, b - 1), IsDetailGet)
    IN  [i \in 1 .. Len(part) |-> part[i].url]

IsPrefix(s, t) == Len(s) <= Len(t) /\ s = SubSeq(t, 1, Len(s))

\* C8: every detail fetch comes right after exactly one delay, and the detail
\* fetches of a listing page are one per record, in listing order, all before
\* the next listing fetch.
C8_DelayThenDetailInOrder ==
    /\ \A i \in 1 .. Len(trace) :
          IsDetailGet(trace[i]) =>
              /\ i > 2
              /\ trace[i - 1].ev = "sleep"
              /\ trace[i - 2].ev # "sleep"
    /\ \A a \in ListingAt :
          LET later == {b \in ListingAt : b > a} IN
          IF later = {}
          THEN IsPrefix(DetailUrlsBetween(a, Len(trace) + 1), trace[a].articles)
          ELSE LET b == CHOOSE x \in later : \A y \in later : x <= y
               IN  DetailUrlsBetween(a, b) = trace[a].articles

\* C8 witness: two detail fetches on page 1, then the fetch of page 2.
C8_Witness ==
    /\ Len(ListingGets) = 2
    /\ Len(ListingGets[1].articles) = 2
    /\ Len(DetailGets) >= 2
    /\ Len(SelectSeq(trace, LAMBDA e : e.ev = "sleep")) = Len(DetailGets)

\* C9: nothing is created or written on disk before parse_posts has returned
\* its whole list, a crawl that raises leaves the disk as it was, and a
\* filesystem failure in an output operation leaves the list as it was.
C9_DiskAfterCrawl ==
    /\ [](fs # InitFs => (status = "returned" /\ stack = <<>>))
    /\ [](status = "raised" => fs = InitFs)
    /\ [][status = "returned" => (status' = "returned" /\ trace' = trace
                                    /\ Len(result') = Len(result))]_vars
    /\ [][(enc'.pc = "raised" /\ exc' = "OSError") => result' = result]_vars

\* C9 witness: an output operation has written the records of a crawl.
C9_Witness ==
    /\ enc.pc = "done"
    /\ result # <<>>
    /\ fs # InitFs

\* C10 as stated: once a "next" link has led back to a visited page, the
\* crawl runs forever.
C10_RunsForever ==
    (AllOk /\ SamePages /\ CycleEntered) => status = "running"

\* C10 amended: once a "next" link has led back to a visited page, the crawl
\* never returns a list; it goes on one nested call per page until the
\* recursion limit, and then ends with RecursionError.
C10_NeverReturns ==
    (AllOk /\ SamePages /\ CycleEntered)
      => /\ status # "returned"
         /\ Len(ListingGets) <= RecursionLimit
         /\ status = "raised" =>
                (exc = "RecursionError" /\ Len(ListingGets) = RecursionLimit)

\* C10 witness: a cycle walked until the stack ran out.
C10_Witness ==
    /\ AllOk /\ SamePages /\ CycleEntered
    /\ status = "raised" /\ exc = "RecursionError"
    /\ \E i, j \in 1 .. Len(ListingGets) : i < j /\ ListingGets[i].url = ListingGets[j].url

====
